---- MODULE Spec2Model ----
(***************************************************************************)
(* A model of the MCP node-fetch server (src/src/index.js, the version     *)
(* with the three tools fetch-url, extract-html-fragment and check-status).*)
(*                                                                         *)
(* An invocation is one tools/call request.  The tools/call handler        *)
(* validates the argument bag with the tool's zod schema and runs the      *)
(* tool's handler, which calls the HTTP capability (undici's fetch) once,  *)
(* suspends until the exchange completes, possibly suspends again until    *)
(* the body has been read, and returns one envelope.                       *)
(***************************************************************************)
EXTENDS Integers, Sequences, FiniteSets, TLC

(***************************************************************************)
(* Bounds of the model.                                                    *)
(***************************************************************************)
\* optional arguments an argument bag supplies besides the required ones
MaxOptArgs == 2
\* redirects the HTTP capability follows before it gives up
MaxRedirects == 2

(***************************************************************************)
(* Invocation slots.  Spec runs its invocations one after the other in     *)
(* the slots of SeqIds.                                                    *)
(***************************************************************************)
Ids == {1, 2}
SeqIds == {1}

Tools == {"fetch-url", "extract-html-fragment", "check-status"}

(***************************************************************************)
(* Argument values the model draws from.  A bag is a function from the     *)
(* keys it supplies to their values: a key that is not in its DOMAIN is a  *)
(* missing (undefined) argument.                                           *)
(***************************************************************************)
UrlValues == {"/a", "http://h/a", "http://h/a#f"}
MethodValues == {"GET", "POST", "PUT", "TRACE"}
HeadersValues == {<<[name |-> "x-k", value |-> "v"]>>}
BodyValues == {"", "x"}
TimeoutValues == {-1, 0, 5}
ResponseTypeValues == {"json", "binary", "html-fragment", "xml"}
SelectorValues == {"", "h1", "p", "nope"}
AnchorValues == {"", "top", "zzz"}

ValuesOf(k) ==
  CASE k = "url" -> UrlValues
    [] k = "method" -> MethodValues
    [] k = "headers" -> HeadersValues
    [] k = "body" -> BodyValues
    [] k = "timeout" -> TimeoutValues
    [] k = "responseType" -> ResponseTypeValues
    [] k = "followRedirects" -> BOOLEAN
    [] k = "fragmentSelector" -> SelectorValues
    [] k = "selector" -> SelectorValues
    [] k = "anchorId" -> AnchorValues

\* the keys a caller of the tool may put in the bag: the properties of the
\* tool's schema, and for check-status also keys its schema does not know
SuppliedKeys(t) ==
  CASE t = "fetch-url" ->
         {"url", "method", "headers", "body", "timeout", "responseType",
          "followRedirects", "fragmentSelector"}
    [] t = "extract-html-fragment" ->
         {"url", "selector", "anchorId", "method", "headers", "body",
          "timeout", "followRedirects"}
    [] t = "check-status" -> {"url", "timeout", "method", "headers", "body"}

\* required: [...] of the tool's inputSchema
RequiredKeys(t) ==
  IF t = "extract-html-fragment" THEN {"url", "selector"} ELSE {"url"}

RECURSIVE BagsOver(_)
BagsOver(S) ==
  IF S = {} THEN {<<>>}
  ELSE LET k == CHOOSE x \in S : TRUE
       IN  {b @@ (k :> v) : b \in BagsOver(S \ {k}), v \in ValuesOf(k)}

ArgBags(t) ==
  UNION {BagsOver(S) :
           S \in {T \in SUBSET SuppliedKeys(t) :
                    Cardinality(T \ RequiredKeys(t)) <= MaxOptArgs}}

Has(o, k) == k \in DOMAIN o

(***************************************************************************)
(* Validation: the zod schemas.                                            *)
(***************************************************************************)
\* z.string().url(): the string parses as a URL on its own, that is, it is
\* an absolute URL
AbsoluteUrls == {"http://h/a", "http://h/a#f", "http://h/b"}
IsUrl(u) == u \in AbsoluteUrls

FetchMethods == {"GET", "POST", "PUT", "DELETE", "HEAD", "OPTIONS", "PATCH"}
ExtractMethods == {"GET", "POST"}
ResponseTypes == {"text", "json", "binary", "html-fragment"}

\* a bug: z.number().nonnegative() in place of positive()
PositiveOrZero(n) == n >= 0

\* z.number().positive()
Positive(n) == n > 0

UrlOk(bag) == Has(bag, "url") /\ IsUrl(bag["url"])
TimeoutOk(bag) == Has(bag, "timeout") => Positive(bag["timeout"])

FetchUrlArgsValid(bag) ==
  /\ UrlOk(bag)
  /\ Has(bag, "method") => bag["method"] \in FetchMethods
  /\ TimeoutOk(bag)
  /\ Has(bag, "responseType") => bag["responseType"] \in ResponseTypes

ExtractHtmlFragmentArgsValid(bag) ==
  /\ UrlOk(bag)
  /\ Has(bag, "selector")
  /\ Has(bag, "method") => bag["method"] \in ExtractMethods
  /\ TimeoutOk(bag)

CheckStatusArgsValid(bag) ==
  /\ UrlOk(bag)
  /\ TimeoutOk(bag)

ArgsValid(t, bag) ==
  CASE t = "fetch-url" -> FetchUrlArgsValid(bag)
    [] t = "extract-html-fragment" -> ExtractHtmlFragmentArgsValid(bag)
    [] t = "check-status" -> CheckStatusArgsValid(bag)

\* the keys of the tool's schema (z.object strips every other key) and the
\* keys the schema gives a default
SchemaKeys(t) ==
  CASE t = "fetch-url" ->
         {"url", "method", "headers", "body", "timeout", "responseType",
          "followRedirects", "fragmentSelector"}
    [] t = "extract-html-fragment" ->
         {"url", "selector", "anchorId", "method", "headers", "body",
          "timeout", "followRedirects"}
    [] t = "check-status" -> {"url", "timeout"}

DefaultKeys(t) ==
  CASE t = "fetch-url" -> {"method", "responseType", "followRedirects"}
    [] t = "extract-html-fragment" -> {"method", "followRedirects"}
    [] t = "check-status" -> {}

\* Schema.parse(args) of a valid bag: unknown keys stripped, defaults filled
SchemaParse(t, bag) ==
  LET keys == (DOMAIN bag \cap SchemaKeys(t)) \cup DefaultKeys(t)
  IN  [k \in keys |->
         IF Has(bag, k) THEN bag[k]
         ELSE CASE k = "method" -> "GET"
                [] k = "responseType" -> "text"
                [] k = "followRedirects" -> TRUE]

(***************************************************************************)
(* The environment: what a server may answer.                              *)
(***************************************************************************)
Statuses == {200, 302, 304, 404, 500}
\* the statuses the HTTP capability treats as redirects to follow
RedirectStatuses == {301, 302, 303, 307, 308}
\* the statuses whose response has no body
NullBodyStatuses == {101, 204, 205, 304}
Locations == {"http://h/a", "http://h/b"}

ReasonPhrase(s) ==
  CASE s = 200 -> "OK"
    [] s = 302 -> "Found"
    [] s = 304 -> "Not Modified"
    [] s = 404 -> "Not Found"
    [] OTHER -> "Internal Server Error"

\* how long, in milliseconds, a server takes to send the response headers, and
\* as long again to send the whole body: less than the timeouts a caller
\* supplies, or more
Delays == {1, 9}

\* response header lists as received: a sequence of name/value lines, a
\* name possibly more than once
HeaderLists ==
  {<<[name |-> "x-a", value |-> "1"], [name |-> "x-a", value |-> "2"],
     [name |-> "set-cookie", value |-> "a=1"],
     [name |-> "set-cookie", value |-> "b=2"]>>}

\* A body is a sequence of chunks of markup: elements (tag, id attribute,
\* text inside) and character data outside any element.
Elem(tag, id, inner) == [tag |-> tag, id |-> id, inner |-> inner]
Text(chars) == [tag |-> "#text", id |-> "", inner |-> chars]

\* a byte that is no character data
Byte(n) == [tag |-> "#byte", id |-> "", inner |-> "", byte |-> n]

\* the chunks of a text given token by token
Chunks(tokens) == [j \in 1..Len(tokens) |-> Text(tokens[j])]

EmptyBody == <<>>
\* {"id":1}
JsonBody == Chunks(<<"{", "\"id\"", ":", "1", "}">>)
\* {"a": 1.0, "a": [true, null]}
JsonDup ==
  Chunks(<<"{", "\"a\"", ":", " ", "1.0", ",", " ", "\"a\"", ":", " ",
           "[", "true", ",", " ", "null", "]", "}">>)
\* [-0, 1e999]
JsonEdge == Chunks(<<"[", "-0", ",", " ", "1e999", "]">>)
\* {"id":
JsonTruncated == Chunks(<<"{", "\"id\"", ":">>)
DocAnchored == <<Elem("h1", "top", "T"), Elem("p", "", "a"), Elem("p", "", "b")>>
\* <H1>T</H1>
DocPlain == <<Elem("H1", "", "T")>>
\* two bytes, the first of them in no UTF-8 text
BinaryBody == <<Byte(255), Byte(84)>>
Bodies ==
  {EmptyBody, JsonBody, JsonDup, JsonEdge, JsonTruncated, DocAnchored, DocPlain,
   BinaryBody}

(***************************************************************************)
(* The capabilities the handlers consume.                                  *)
(***************************************************************************)
\* Response.url: the URL serialised with its fragment excluded
Href(u) == IF u = "http://h/a#f" THEN "http://h/a" ELSE u

\* a bug: every status below 400 counts as ok
OkBelow400(status) == status >= 200 /\ status <= 399

\* Response.ok
Ok(status) == status >= 200 /\ status <= 299

\* fetch(url, init) reads the members of init that the RequestInit dictionary
\* names and drops every other member
RequestInitMembers ==
  {"method", "headers", "body", "referrer", "referrerPolicy", "mode",
   "credentials", "cache", "redirect", "integrity", "keepalive", "signal",
   "window", "duplex", "dispatcher"}

\* fetch gives up a wait that has lasted delay when member k of its init
\* bounds the wait and delay is beyond the bound
TimedOut(options, k, delay) ==
  k \in RequestInitMembers /\ k \in DOMAIN options /\ delay > options[k]

\* a bug: an argument counts as given whenever it is not undefined
DefinedStr(o, k) == Has(o, k)

\* truthiness of an optional string or number argument: present, and not
\* "" or 0
TruthyStr(o, k) == Has(o, k) /\ o[k] # ""
TruthyNum(o, k) == Has(o, k) /\ o[k] # 0

\* response.headers.entries(): one entry per name, the values of a repeated
\* name combined with ", " (set-cookie excepted, whose values stay apart);
\* Object.fromEntries keeps the last entry of a name
RECURSIVE Combine(_)
Combine(vals) ==
  IF Len(vals) <= 1 THEN vals
  ELSE <<Head(vals), ", ">> \o Combine(Tail(vals))

ValuesNamed(h, n) ==
  LET sel == SelectSeq(h, LAMBDA e : e.name = n)
  IN  [j \in 1..Len(sel) |-> sel[j].value]

ObjectFromEntries(h) ==
  [n \in {h[j].name : j \in DOMAIN h} |->
     IF n = "set-cookie"
     THEN <<ValuesNamed(h, n)[Len(ValuesNamed(h, n))]>>
     ELSE Combine(ValuesNamed(h, n))]

(***************************************************************************)
(* JSON.  A JSON text is a sequence of tokens; a JSON value is a record    *)
(* of its kind, its atom (scalars), its items (arrays, objects) and its    *)
(* keys (objects).                                                         *)
(***************************************************************************)
WhitespaceTokens == {" ", "  ", "\n"}
StringTokens == {"\"id\"", "\"a\""}
NumberTokens == {"1", "1.0", "-0", "1e999"}
LiteralTokens == {"null", "true", "false"}

JsonValue(kind, atom, items, keys) ==
  [kind |-> kind, atom |-> atom, items |-> items, keys |-> keys]
JsonNull == JsonValue("null", "null", <<>>, <<>>)

\* the number a number token denotes, as a double: its shortest decimal
\* form, -0 for negative zero, Infinity beyond the range of doubles
NumberOf(token) ==
  CASE token = "1.0" -> "1"
    [] token = "1e999" -> "Infinity"
    [] OTHER -> token

\* the outcome of a parsing step: the value read and the position after it,
\* or the position the parser stopped at
Parsed(value, next) == [ok |-> TRUE, value |-> value, next |-> next]
Stuck(at) == [ok |-> FALSE, value |-> JsonNull, next |-> at]

\* obj[key] = value: a key the object has keeps its place
DefineProperty(keys, items, key, value) ==
  IF \E j \in DOMAIN keys : keys[j] = key
  THEN [keys |-> keys,
        items |-> [j \in DOMAIN items |-> IF keys[j] = key THEN value ELSE items[j]]]
  ELSE [keys |-> Append(keys, key), items |-> Append(items, value)]

RECURSIVE ParseValue(_, _), ParseElements(_, _, _), ParseMembers(_, _, _, _)

\* JSON.parse: the value that starts at position p of the tokens
ParseValue(toks, p) ==
  IF p > Len(toks) THEN Stuck(p)
  ELSE CASE toks[p] \in NumberTokens ->
              Parsed(JsonValue("number", NumberOf(toks[p]), <<>>, <<>>), p + 1)
         [] toks[p] \in StringTokens ->
              Parsed(JsonValue("string", toks[p], <<>>, <<>>), p + 1)
         [] toks[p] \in LiteralTokens ->
              Parsed(JsonValue(IF toks[p] = "null" THEN "null" ELSE "boolean",
                               toks[p], <<>>, <<>>), p + 1)
         [] toks[p] = "[" ->
              IF p < Len(toks) /\ toks[p + 1] = "]"
              THEN Parsed(JsonValue("array", "", <<>>, <<>>), p + 2)
              ELSE ParseElements(toks, p + 1, <<>>)
         [] toks[p] = "{" ->
              IF p < Len(toks) /\ toks[p + 1] = "}"
              THEN Parsed(JsonValue("object", "", <<>>, <<>>), p + 2)
              ELSE ParseMembers(toks, p + 1, <<>>, <<>>)
         [] OTHER -> Stuck(p)

\* the elements of an array from position p on, items being those read
ParseElements(toks, p, items) ==
  LET r == ParseValue(toks, p)
  IN  IF ~r.ok THEN r
      ELSE IF r.next > Len(toks) THEN Stuck(r.next)
      ELSE IF toks[r.next] = ","
      THEN ParseElements(toks, r.next + 1, Append(items, r.value))
      ELSE IF toks[r.next] = "]"
      THEN Parsed(JsonValue("array", "", Append(items, r.value), <<>>), r.next + 1)
      ELSE Stuck(r.next)

\* the members of an object from position p on
ParseMembers(toks, p, keys, items) ==
  IF p > Len(toks) THEN Stuck(p)
  ELSE IF toks[p] \notin StringTokens THEN Stuck(p)
  ELSE IF p + 1 > Len(toks) THEN Stuck(p + 1)
  ELSE IF toks[p + 1] # ":" THEN Stuck(p + 1)
  ELSE LET r == ParseValue(toks, p + 2)
           o == DefineProperty(keys, items, toks[p], r.value)
       IN  IF ~r.ok THEN r
           ELSE IF r.next > Len(toks) THEN Stuck(r.next)
           ELSE IF toks[r.next] = ","
           THEN ParseMembers(toks, r.next + 1, o.keys, o.items)
           ELSE IF toks[r.next] = "}"
           THEN Parsed(JsonValue("object", "", o.items, o.keys), r.next + 1)
           ELSE Stuck(r.next)

\* the tokens of a text, whitespace left out; markup is no JSON token
JsonTokens(text) ==
  LET toks == [j \in DOMAIN text |->
                 IF text[j].tag = "#text" THEN text[j].inner ELSE "<"]
  IN  SelectSeq(toks, LAMBDA t : t \notin WhitespaceTokens)

\* JSON.parse(text): one value and nothing after it
JsonParse(text) ==
  LET toks == JsonTokens(text)
      r == ParseValue(toks, 1)
  IN  IF r.ok /\ r.next <= Len(toks) THEN Stuck(r.next) ELSE r

JsonParses(body) == JsonParse(body).ok

\* the message of the SyntaxError of JSON.parse
JsonParseMessage(body) ==
  IF JsonParse(body).next > Len(JsonTokens(body))
  THEN "Unexpected end of JSON input"
  ELSE "Unexpected token"

\* the indentation of nesting depth d, two spaces a level
RECURSIVE Indent(_)
Indent(d) == IF d = 0 THEN <<>> ELSE <<"  ">> \o Indent(d - 1)

RECURSIVE StringifyValue(_, _), StringifyItems(_, _, _)

\* JSON.stringify(value, null, 2): the tokens of value at nesting depth d; a
\* number that is not finite is written null, negative zero is written 0
StringifyValue(v, d) ==
  CASE v.kind = "number" ->
         IF v.atom = "Infinity" THEN <<"null">>
         ELSE IF v.atom = "-0" THEN <<"0">>
         ELSE <<v.atom>>
    [] v.kind = "array" ->
         IF v.items = <<>> THEN <<"[", "]">>
         ELSE <<"[">> \o StringifyItems(v, 1, d + 1)
                \o <<"\n">> \o Indent(d) \o <<"]">>
    [] v.kind = "object" ->
         IF v.items = <<>> THEN <<"{", "}">>
         ELSE <<"{">> \o StringifyItems(v, 1, d + 1)
                \o <<"\n">> \o Indent(d) \o <<"}">>
    [] OTHER -> <<v.atom>>

\* the items of v from the j-th on, each on a line of its own
StringifyItems(v, j, d) ==
  IF j > Len(v.items) THEN <<>>
  ELSE <<"\n">> \o Indent(d)
         \o (IF v.kind = "object" THEN <<v.keys[j], ":", " ">> ELSE <<>>)
         \o StringifyValue(v.items[j], d)
         \o (IF j < Len(v.items) THEN <<",">> ELSE <<>>)
         \o StringifyItems(v, j + 1, d)

\* a bug: String(value) in place of JSON.stringify(value, null, 2)
JsonToString(value) ==
  IF value.kind = "object" THEN Chunks(<<"[object Object]">>)
  ELSE Chunks(StringifyValue(value, 0))

JsonStringify(value) == Chunks(StringifyValue(value, 0))

(***************************************************************************)
(* Bytes and text.                                                         *)
(***************************************************************************)
\* the UTF-8 encoding of the character strings of the model (all ASCII)
CharCodes ==
  ("{" :> <<123>>) @@ ("}" :> <<125>>) @@ ("[" :> <<91>>) @@ ("]" :> <<93>>)
  @@ (":" :> <<58>>) @@ ("," :> <<44>>) @@ (" " :> <<32>>) @@ ("\n" :> <<10>>)
  @@ ("1" :> <<49>>) @@ ("1.0" :> <<49, 46, 48>>) @@ ("-0" :> <<45, 48>>)
  @@ ("1e999" :> <<49, 101, 57, 57, 57>>) @@ ("true" :> <<116, 114, 117, 101>>)
  @@ ("null" :> <<110, 117, 108, 108>>) @@ ("\"id\"" :> <<34, 105, 100, 34>>)
  @@ ("\"a\"" :> <<34, 97, 34>>) @@ ("h1" :> <<104, 49>>) @@ ("H1" :> <<72, 49>>)
  @@ ("p" :> <<112>>) @@ ("top" :> <<116, 111, 112>>) @@ ("T" :> <<84>>)
  @@ ("a" :> <<97>>) @@ ("b" :> <<98>>) @@ ("" :> <<>>)

\* the bytes of a chunk as the server sent it: an element is its start tag
\* <tag id="id">, its text and its end tag </tag>
ChunkBytes(c) ==
  CASE c.tag = "#byte" -> <<c.byte>>
    [] c.tag = "#text" -> CharCodes[c.inner]
    [] OTHER ->
         <<60>> \o CharCodes[c.tag]
         \o (IF c.id = "" THEN <<>>
             ELSE <<32, 105, 100, 61, 34>> \o CharCodes[c.id] \o <<34>>)
         \o <<62>> \o CharCodes[c.inner]
         \o <<60, 47>> \o CharCodes[c.tag] \o <<62>>

\* response.arrayBuffer(): the bytes of the body
RECURSIVE ArrayBuffer(_)
ArrayBuffer(body) ==
  IF body = <<>> THEN <<>> ELSE ChunkBytes(Head(body)) \o ArrayBuffer(Tail(body))

\* response.text(): the body decoded as UTF-8, a byte that is in no UTF-8
\* text replaced by U+FFFD
TextOf(body) ==
  [j \in DOMAIN body |->
     IF body[j].tag # "#byte" THEN body[j]
     ELSE IF \E s \in DOMAIN CharCodes : CharCodes[s] = <<body[j].byte>>
     THEN Text(CHOOSE s \in DOMAIN CharCodes : CharCodes[s] = <<body[j].byte>>)
     ELSE Text("U+FFFD")]

Base64Alphabet ==
  <<"A", "B", "C", "D", "E", "F", "G", "H", "I", "J", "K", "L", "M", "N", "O",
    "P", "Q", "R", "S", "T", "U", "V", "W", "X", "Y", "Z", "a", "b", "c", "d",
    "e", "f", "g", "h", "i", "j", "k", "l", "m", "n", "o", "p", "q", "r", "s",
    "t", "u", "v", "w", "x", "y", "z", "0", "1", "2", "3", "4", "5", "6", "7",
    "8", "9", "+", "/">>
Base64Char(sextet) == Base64Alphabet[sextet + 1]

\* the base64 characters of a sequence of bytes: four characters for three
\* bytes, the last group padded with =
RECURSIVE Base64Chars(_)
Base64Chars(bytes) ==
  IF Len(bytes) = 0 THEN <<>>
  ELSE IF Len(bytes) = 1
  THEN <<Base64Char(bytes[1] \div 4), Base64Char((bytes[1] % 4) * 16), "=", "=">>
  ELSE IF Len(bytes) = 2
  THEN <<Base64Char(bytes[1] \div 4),
         Base64Char((bytes[1] % 4) * 16 + bytes[2] \div 16),
         Base64Char((bytes[2] % 16) * 4), "=">>
  ELSE <<Base64Char(bytes[1] \div 4),
         Base64Char((bytes[1] % 4) * 16 + bytes[2] \div 16),
         Base64Char((bytes[2] % 16) * 4 + bytes[3] \div 64),
         Base64Char(bytes[3] % 64)>>
       \o Base64Chars(SubSeq(bytes, 4, Len(bytes)))

HexDigits ==
  <<"0", "1", "2", "3", "4", "5", "6", "7", "8", "9", "a", "b", "c", "d", "e", "f">>

\* a bug: toString("hex") in place of toString("base64")
RECURSIVE Hex(_)
Hex(bytes) ==
  IF bytes = <<>> THEN <<>>
  ELSE Chunks(<<HexDigits[Head(bytes) \div 16 + 1], HexDigits[(Head(bytes) % 16) + 1]>>)
       \o Hex(Tail(bytes))

\* Buffer.from(bytes).toString("base64")
Base64(bytes) == Chunks(Base64Chars(bytes))

\* the HTML parser turns the letters of a tag name into lower case
LowerCase(name) == IF name = "H1" THEN "h1" ELSE name

\* new JSDOM(html).window.document: the nodes of the document in document
\* order, an element for each element of the markup and a text node for the
\* character data between them
Jsdom(html) ==
  [j \in DOMAIN html |->
     [localName |-> LowerCase(html[j].tag), id |-> html[j].id,
      textContent |-> html[j].inner]]

\* a bug: the element looked up is any element that has an id
GetElementWithId(document, id) ==
  {j \in DOMAIN document :
     document[j].localName # "#text" /\ document[j].id # ""}

\* document.getElementById(id)
GetElementById(document, id) ==
  {j \in DOMAIN document :
     document[j].localName # "#text" /\ document[j].id = id /\ id # ""}

\* document.querySelectorAll(selector) for a type selector: the elements of
\* that type in document order; the empty selector is a syntax error
SelectorThrows(sel) == sel = ""
QuerySelectorAll(document, sel) ==
  SelectSeq(document, LAMBDA n : n.localName # "#text" /\ n.localName = sel)

\* a bug: element.innerHTML
InnerHTML(el) == Text(el.textContent)

\* element.outerHTML: the element serialised, start tag, content and end tag
OuterHTML(el) == Elem(el.localName, el.id, el.textContent)

(***************************************************************************)
(* Errors and envelopes.  A message is a sequence of parts: literal text,  *)
(* an embedded status code (num) and an embedded argument text (arg).      *)
(***************************************************************************)
Part(text, num, arg) == [text |-> text, num |-> num, arg |-> arg]
Lit(text) == Part(text, 0, "")

\* the values of the result that are strings or arrays of strings, as
\* JSON.stringify(result, null, 2) writes them: a string is a sequence of
\* chunks, an array a sequence of strings
String(chars) == [type |-> "string", chars |-> chars, items |-> <<>>]
Array(items) == [type |-> "array", chars |-> <<>>, items |-> items]

\* the outcome of a handler's try block
Returns(result, steps) == [ok |-> TRUE, result |-> result, steps |-> steps]
Throws(message, steps) == [ok |-> FALSE, message |-> message, steps |-> steps]

\* a bug: the catch block of every handler is a copy of handleFetchUrl's
ErrorTagOfFetchUrl(t) == "Error fetching URL: "

\* the tag the catch block of the tool's handler puts before the message
ErrorTag(t) ==
  CASE t = "fetch-url" -> "Error fetching URL: "
    [] t = "extract-html-fragment" -> "Error extracting HTML fragment: "
    [] t = "check-status" -> "Error checking URL status: "

SuccessEnvelope(result) ==
  [isError |-> FALSE, content |-> <<[type |-> "text", text |-> result]>>]
ErrorEnvelope(t, message) ==
  [isError |-> TRUE,
   content |-> <<[type |-> "text", text |-> <<Lit(ErrorTag(t))>> \o message]>>]

\* a bug: the catch block returns its message without the isError flag
EnvelopeOfUnflagged(t, outcome) ==
  IF outcome.ok THEN SuccessEnvelope(outcome.result)
  ELSE [ErrorEnvelope(t, outcome.message) EXCEPT !.isError = FALSE]

\* the return of a handler: the try block's result, or the catch block's
EnvelopeOf(t, outcome) ==
  IF outcome.ok THEN SuccessEnvelope(outcome.result)
  ELSE ErrorEnvelope(t, outcome.message)

(***************************************************************************)
(* The handlers, up to the call of the HTTP capability.                    *)
(***************************************************************************)
TimeoutOptions(args) ==
  IF TruthyNum(args, "timeout")
  THEN [bodyTimeout |-> args["timeout"], headersTimeout |-> args["timeout"]]
  ELSE <<>>

\* a bug: the redirect option does not depend on followRedirects
FetchUrlOptionsAlwaysFollow(args) ==
  [method |-> args["method"],
   headers |-> IF Has(args, "headers") THEN args["headers"] ELSE <<>>,
   redirect |-> "follow"]
  @@ (IF TruthyStr(args, "body") THEN [body |-> args["body"]] ELSE <<>>)
  @@ TimeoutOptions(args)

\* handleFetchUrl and handleExtractHtmlFragment build the same options
FetchUrlOptions(args) ==
  [method |-> args["method"],
   headers |-> IF Has(args, "headers") THEN args["headers"] ELSE <<>>,
   redirect |-> IF args["followRedirects"] THEN "follow" ELSE "manual"]
  @@ (IF TruthyStr(args, "body") THEN [body |-> args["body"]] ELSE <<>>)
  @@ TimeoutOptions(args)

\* a bug: check-status sends fetch's default method
CheckStatusOptionsGet(args) ==
  [method |-> "GET"]
  @@ (IF TruthyNum(args, "timeout")
      THEN [headersTimeout |-> args["timeout"]] ELSE <<>>)

\* handleCheckStatus: the options it builds
CheckStatusOptions(args) ==
  [method |-> "HEAD"]
  @@ (IF TruthyNum(args, "timeout")
      THEN [headersTimeout |-> args["timeout"]] ELSE <<>>)

RequestOptions(t, args) ==
  IF t = "check-status" THEN CheckStatusOptions(args) ELSE FetchUrlOptions(args)

(***************************************************************************)
(* The handlers, after the exchange.                                       *)
(***************************************************************************)
Metadata(resp) ==
  [status |-> resp.status, statusText |-> resp.statusText,
   headers |-> ObjectFromEntries(resp.headers), url |-> resp.url]

\* a bug: isAvailable computed as status < 400
CheckStatusResultBelow400(resp) ==
  Metadata(resp) @@ [isAvailable |-> resp.status >= 200 /\ resp.status <= 399]

\* handleCheckStatus: the whole result
CheckStatusResult(resp) == Metadata(resp) @@ [isAvailable |-> Ok(resp.status)]

\* handleFetchUrl: the body reader its switch awaits
BodyReader(responseType) ==
  CASE responseType = "json" -> "json"
    [] responseType = "binary" -> "arrayBuffer"
    [] OTHER -> "text"

\* a bug: the check of elements.length left out
NeverEmpty(elements) == FALSE

\* elements.length === 0
NoElements(elements) == Len(elements) = 0

\* elements.map(el => el.outerHTML)
OuterHTMLs(els) == [j \in 1..Len(els) |-> <<OuterHTML(els[j])>>]

\* a bug: Array.join() without its separator argument joins with commas
RECURSIVE JoinCommas(_)
JoinCommas(strs) ==
  IF Len(strs) = 0 THEN <<>>
  ELSE IF Len(strs) = 1 THEN strs[1]
  ELSE strs[1] \o <<Text(",")>> \o JoinCommas(Tail(strs))

\* Array.join("\n")
RECURSIVE JoinLines(_)
JoinLines(strs) ==
  IF Len(strs) = 0 THEN <<>>
  ELSE IF Len(strs) = 1 THEN strs[1]
  ELSE strs[1] \o <<Text("\n")>> \o JoinLines(Tail(strs))

\* a bug: without a selector the content is the document serialised again
\* (dom.serialize()), not the text received
HtmlFragmentCaseSerialized(args, resp, body) ==
  IF TruthyStr(args, "fragmentSelector")
  THEN LET sel == args["fragmentSelector"]
           elements == QuerySelectorAll(Jsdom(body), sel)
           steps == <<"text", "JSDOM", "querySelectorAll">>
       IN  IF NoElements(elements)
           THEN Throws(<<Lit("Failed to parse or extract HTML fragment: "),
                         Part("No elements found matching selector ", 0, sel)>>,
                       steps)
           ELSE Returns(Metadata(resp)
                          @@ [content |-> IF Len(elements) = 1
                                          THEN String(<<OuterHTML(elements[1])>>)
                                          ELSE String(JoinLines(OuterHTMLs(elements))),
                              matchCount |-> Len(elements),
                              contentType |-> "text/html"],
                        steps)
  ELSE Returns(Metadata(resp)
                 @@ [content |-> String([j \in DOMAIN body |->
                                           IF body[j].tag = "#text" THEN body[j]
                                           ELSE OuterHTML(Jsdom(body)[j])]),
                     contentType |-> "text/html"],
               <<"text", "JSDOM">>)

\* handleFetchUrl: case "html-fragment"
HtmlFragmentCase(args, resp, body) ==
  IF TruthyStr(args, "fragmentSelector")
  THEN LET sel == args["fragmentSelector"]
           elements == QuerySelectorAll(Jsdom(body), sel)
           steps == <<"text", "JSDOM", "querySelectorAll">>
       IN  IF NoElements(elements)
           THEN Throws(<<Lit("Failed to parse or extract HTML fragment: "),
                         Part("No elements found matching selector ", 0, sel)>>,
                       steps)
           ELSE Returns(Metadata(resp)
                          @@ [content |-> IF Len(elements) = 1
                                          THEN String(<<OuterHTML(elements[1])>>)
                                          ELSE String(JoinLines(OuterHTMLs(elements))),
                              matchCount |-> Len(elements),
                              contentType |-> "text/html"],
                        steps)
  ELSE Returns(Metadata(resp)
                 @@ [content |-> String(body), contentType |-> "text/html"],
               <<"text", "JSDOM">>)

\* a bug: a body that does not parse is returned as it is
JsonCaseLenient(resp, body) ==
  IF JsonParses(body)
  THEN Returns(Metadata(resp)
                 @@ [content |-> String(JsonStringify(JsonParse(body).value))],
               <<"json">>)
  ELSE Returns(Metadata(resp) @@ [content |-> String(body)], <<"json">>)

\* handleFetchUrl: case "json"
JsonCase(resp, body) ==
  IF JsonParses(body)
  THEN Returns(Metadata(resp)
                 @@ [content |-> String(JsonStringify(JsonParse(body).value))],
               <<"json">>)
  ELSE Throws(<<Lit("Failed to parse response as JSON: "),
                Lit(JsonParseMessage(body))>>, <<"json">>)

\* handleFetchUrl from the switch on responseType to the end of its try
\* block, the body read having resolved with body
FetchUrlTransform(args, resp, body) ==
  CASE args["responseType"] = "json" -> JsonCase(resp, TextOf(body))
    [] args["responseType"] = "binary" ->
         Returns(Metadata(resp)
                   @@ [content |-> String(Base64(ArrayBuffer(body))),
                       encoding |-> "base64"],
                 <<"arrayBuffer">>)
    [] args["responseType"] = "html-fragment" ->
         HtmlFragmentCase(args, resp, TextOf(body))
    [] OTHER ->
         Returns(Metadata(resp) @@ [content |-> String(TextOf(body))], <<"text">>)

\* handleFetchUrl when the body read rejects
FetchUrlBodyFailure(args, message) ==
  CASE args["responseType"] = "json" ->
         Throws(<<Lit("Failed to parse response as JSON: ")>> \o message, <<"json">>)
    [] args["responseType"] = "html-fragment" ->
         Throws(<<Lit("Failed to parse or extract HTML fragment: ")>> \o message,
                <<"text">>)
    [] OTHER -> Throws(message, <<BodyReader(args["responseType"])>>)

\* handleExtractHtmlFragment: the status check after the exchange
HttpErrorMessage(resp) ==
  <<Part("Failed to fetch URL: HTTP ", resp.status, resp.statusText)>>

\* a bug: with an anchor the selector is applied from the anchor element on
\* (anchorElement.querySelectorAll and what follows it)
ExtractTransformFromAnchor(args, resp, body) ==
  LET anchored == TruthyStr(args, "anchorId")
      gate == IF anchored THEN <<"text", "JSDOM", "getElementById">>
              ELSE <<"text", "JSDOM">>
      sel == args["selector"]
      from == IF anchored /\ GetElementById(Jsdom(body), args["anchorId"]) # {}
              THEN CHOOSE j \in GetElementById(Jsdom(body), args["anchorId"]) : TRUE
              ELSE 0
      elements == QuerySelectorAll(SubSeq(Jsdom(body), from + 1, Len(body)), sel)
  IN  IF anchored /\ GetElementById(Jsdom(body), args["anchorId"]) = {}
      THEN Throws(<<Part("Anchor element with ID  not found", 0, args["anchorId"])>>,
                  gate)
      ELSE IF SelectorThrows(sel)
      THEN Throws(<<Part(" is not a valid selector", 0, sel)>>,
                  gate \o <<"querySelectorAll">>)
      ELSE IF NoElements(elements)
      THEN Throws(<<Part("No elements found matching selector ", 0, sel)>>,
                  gate \o <<"querySelectorAll">>)
      ELSE Returns([status |-> resp.status, statusText |-> resp.statusText,
                    url |-> resp.url, selector |-> sel,
                    matchCount |-> Len(elements),
                    html |-> IF Len(elements) = 1
                             THEN String(<<OuterHTML(elements[1])>>)
                             ELSE Array(OuterHTMLs(elements))],
                   gate \o <<"querySelectorAll">>)

\* a bug: the selector is evaluated before the anchor is looked up
ExtractTransformSelectorFirst(args, resp, body) ==
  LET anchored == TruthyStr(args, "anchorId")
      sel == args["selector"]
      elements == QuerySelectorAll(Jsdom(body), sel)
  IN  IF SelectorThrows(sel)
      THEN Throws(<<Part(" is not a valid selector", 0, sel)>>,
                  <<"text", "JSDOM", "querySelectorAll">>)
      ELSE IF NoElements(elements)
      THEN Throws(<<Part("No elements found matching selector ", 0, sel)>>,
                  <<"text", "JSDOM", "querySelectorAll">>)
      ELSE IF anchored /\ GetElementById(Jsdom(body), args["anchorId"]) = {}
      THEN Throws(<<Part("Anchor element with ID  not found", 0, args["anchorId"])>>,
                  <<"text", "JSDOM", "querySelectorAll", "getElementById">>)
      ELSE Returns([status |-> resp.status, statusText |-> resp.statusText,
                    url |-> resp.url, selector |-> sel,
                    matchCount |-> Len(elements),
                    html |-> IF Len(elements) = 1
                             THEN String(<<OuterHTML(elements[1])>>)
                             ELSE Array(OuterHTMLs(elements))],
                   <<"text", "JSDOM", "querySelectorAll", "getElementById">>)

\* handleExtractHtmlFragment from the parse of the body to the end of its
\* try block
ExtractTransform(args, resp, body) ==
  LET anchored == TruthyStr(args, "anchorId")
      gate == IF anchored THEN <<"text", "JSDOM", "getElementById">>
              ELSE <<"text", "JSDOM">>
      sel == args["selector"]
      elements == QuerySelectorAll(Jsdom(body), sel)
  IN  IF anchored /\ GetElementById(Jsdom(body), args["anchorId"]) = {}
      THEN Throws(<<Part("Anchor element with ID  not found", 0, args["anchorId"])>>,
                  gate)
      ELSE IF SelectorThrows(sel)
      THEN Throws(<<Part(" is not a valid selector", 0, sel)>>,
                  gate \o <<"querySelectorAll">>)
      ELSE IF NoElements(elements)
      THEN Throws(<<Part("No elements found matching selector ", 0, sel)>>,
                  gate \o <<"querySelectorAll">>)
      ELSE Returns([status |-> resp.status, statusText |-> resp.statusText,
                    url |-> resp.url, selector |-> sel,
                    matchCount |-> Len(elements),
                    html |-> IF Len(elements) = 1
                             THEN String(<<OuterHTML(elements[1])>>)
                             ELSE Array(OuterHTMLs(elements))],
                   gate \o <<"querySelectorAll">>)

(***************************************************************************)
(* The state: one entry per invocation slot.                               *)
(***************************************************************************)
VARIABLES
  pc,         \* "idle", "fetching" (suspended at await fetch), "reading"
              \* (suspended at the body read), "done"
  tool,       \* the tool called
  bag,        \* the argument bag as the caller sent it
  args,       \* the bag as parsed by the tool's schema
  calls,      \* the calls of the HTTP capability: <<[url, options]>>
  curUrl,     \* the URL the running exchange is requesting
  trail,      \* the answers of the servers in the running exchange, in
              \* order: <<[url, status, location]>>, location "" for none
  resp,       \* the response fetch resolved with, <<>> before
  bodyIn,     \* <<the body the body read resolved with>>, <<>> before
  steps,      \* what the handler did with the response, in order
  envelopes,  \* the envelopes the handler returned
  waited,     \* how long the handler was suspended at each of its awaits
  thrown,     \* the exceptions that left the tools/call handler
  overlapped  \* history: the invocations that were suspended at an await
              \* when this one was called

vars == <<pc, tool, bag, args, calls, curUrl, trail, resp, bodyIn, steps,
          envelopes, waited, thrown, overlapped>>

NoResponse == [status |-> 0, statusText |-> "", headers |-> <<>>, url |-> ""]

Init ==
  /\ pc = [i \in Ids |-> "idle"]
  /\ tool = [i \in Ids |-> ""]
  /\ bag = [i \in Ids |-> <<>>]
  /\ args = [i \in Ids |-> <<>>]
  /\ calls = [i \in Ids |-> <<>>]
  /\ curUrl = [i \in Ids |-> ""]
  /\ trail = [i \in Ids |-> <<>>]
  /\ resp = [i \in Ids |-> NoResponse]
  /\ bodyIn = [i \in Ids |-> <<>>]
  /\ steps = [i \in Ids |-> <<>>]
  /\ envelopes = [i \in Ids |-> <<>>]
  /\ waited = [i \in Ids |-> <<>>]
  /\ thrown = [i \in Ids |-> <<>>]
  /\ overlapped = [i \in Ids |-> {}]

\* the handler of invocation i returns envelope e
Return(i, e, did) ==
  /\ envelopes' = [envelopes EXCEPT ![i] = Append(@, e)]
  /\ steps' = [steps EXCEPT ![i] = @ \o did]
  /\ pc' = [pc EXCEPT ![i] = "done"]

\* the tools/call handler: Schema.parse(args) throws out of the handler, or
\* the tool's handler runs up to its await of fetch(url, options)
CallTool(i, t, b) ==
  /\ pc[i] = "idle"
  /\ tool' = [tool EXCEPT ![i] = t]
  /\ bag' = [bag EXCEPT ![i] = b]
  /\ overlapped' = [overlapped EXCEPT ![i] =
                      {j \in Ids \ {i} : pc[j] \in {"fetching", "reading"}}]
  /\ IF ArgsValid(t, b)
     THEN LET a == SchemaParse(t, b)
          IN  /\ args' = [args EXCEPT ![i] = a]
              /\ calls' = [calls EXCEPT ![i] =
                             Append(@, [url |-> a["url"],
                                        options |-> RequestOptions(t, a)])]
              /\ curUrl' = [curUrl EXCEPT ![i] = a["url"]]
              /\ pc' = [pc EXCEPT ![i] = "fetching"]
              /\ UNCHANGED thrown
     ELSE /\ thrown' = [thrown EXCEPT ![i] = Append(@, "ZodError")]
          /\ pc' = [pc EXCEPT ![i] = "done"]
          /\ UNCHANGED <<args, calls, curUrl>>
  /\ UNCHANGED <<trail, resp, bodyIn, steps, envelopes, waited>>

Options(i) == calls[i][Len(calls[i])].options

\* fetch refuses a GET or HEAD request that carries a body
RequestMalformed(i) ==
  Options(i).method \in {"GET", "HEAD"} /\ Has(Options(i), "body")

\* RequestInit.redirect, "follow" when not given
RedirectMode(i) ==
  IF Has(Options(i), "redirect") THEN Options(i).redirect ELSE "follow"

\* fetch rejects with message: the handler's catch block returns the error
FetchRejects(i, message) ==
  /\ Return(i, ErrorEnvelope(tool[i], message), <<>>)
  /\ UNCHANGED <<tool, bag, args, calls, curUrl, trail, resp, bodyIn, waited,
                 thrown, overlapped>>

\* a bug: the handler calls fetch a second time when the first call rejects
FetchFailRetrying(i) ==
  /\ pc[i] = "fetching"
  /\ IF Len(calls[i]) < 2
     THEN /\ calls' = [calls EXCEPT ![i] = Append(@, @[1])]
          /\ curUrl' = [curUrl EXCEPT ![i] = calls[i][1].url]
          /\ trail' = [trail EXCEPT ![i] = <<>>]
          /\ UNCHANGED <<pc, tool, bag, args, resp, bodyIn, steps, envelopes,
                         waited, thrown, overlapped>>
     ELSE FetchRejects(i, <<Lit("fetch failed")>>)

\* a transport fault, or the refusal of a malformed request
FetchFail(i) ==
  /\ pc[i] = "fetching"
  /\ FetchRejects(i, IF RequestMalformed(i)
                     THEN <<Lit("Request with GET/HEAD method cannot have body")>>
                     ELSE <<Lit("fetch failed")>>)

\* the server answers with a redirect status and the Location loc, and the
\* capability follows it, or gives up when it has followed too many
Redirect(i, status, loc) ==
  /\ pc[i] = "fetching"
  /\ ~RequestMalformed(i)
  /\ RedirectMode(i) = "follow"
  /\ IF Len(trail[i]) < MaxRedirects
     THEN /\ trail' = [trail EXCEPT ![i] =
                         Append(@, [url |-> curUrl[i], status |-> status,
                                    location |-> loc])]
          /\ curUrl' = [curUrl EXCEPT ![i] = loc]
          /\ UNCHANGED <<pc, tool, bag, args, calls, resp, bodyIn, steps,
                         envelopes, waited, thrown, overlapped>>
     ELSE FetchRejects(i, <<Lit("redirect count exceeded")>>)

\* a bug: handleFetchUrl throws on a status that is not ok, as
\* handleExtractHtmlFragment does
AfterFetchStrict(i, t, r) ==
  CASE t = "check-status" ->
         Return(i, SuccessEnvelope(CheckStatusResult(r)), <<>>)
    [] OTHER ->
         IF ~Ok(r.status)
         THEN Return(i, ErrorEnvelope(t, HttpErrorMessage(r)), <<>>)
         ELSE /\ steps' = [steps EXCEPT ![i] =
                             IF t = "fetch-url"
                             THEN <<BodyReader(args[i]["responseType"])>>
                             ELSE <<"text">>]
              /\ pc' = [pc EXCEPT ![i] = "reading"]
              /\ UNCHANGED envelopes

\* a bug: check-status keeps the results of earlier invocations and answers
\* a call it has seen before from them
AfterFetchCached(i, t, r) ==
  LET seen == {j \in Ids \ {i} : /\ pc[j] = "done" /\ tool[j] = t
                                  /\ bag[j] = bag[i] /\ envelopes[j] # <<>>}
  IN  CASE t = "check-status" ->
             IF seen # {}
             THEN Return(i, envelopes[CHOOSE j \in seen : TRUE][1], <<>>)
             ELSE Return(i, SuccessEnvelope(CheckStatusResult(r)), <<>>)
        [] t = "extract-html-fragment" ->
             IF ~Ok(r.status)
             THEN Return(i, ErrorEnvelope(t, HttpErrorMessage(r)), <<>>)
             ELSE /\ steps' = [steps EXCEPT ![i] = <<"text">>]
                  /\ pc' = [pc EXCEPT ![i] = "reading"]
                  /\ UNCHANGED envelopes
        [] t = "fetch-url" ->
             /\ steps' = [steps EXCEPT ![i] = <<BodyReader(args[i]["responseType"])>>]
             /\ pc' = [pc EXCEPT ![i] = "reading"]
             /\ UNCHANGED envelopes

\* the handler of tool t resumes with the response r of its await of fetch
AfterFetch(i, t, r) ==
  CASE t = "check-status" ->
         Return(i, SuccessEnvelope(CheckStatusResult(r)), <<>>)
    [] t = "extract-html-fragment" ->
         IF ~Ok(r.status)
         THEN Return(i, ErrorEnvelope(t, HttpErrorMessage(r)), <<>>)
         ELSE /\ steps' = [steps EXCEPT ![i] = <<"text">>]
              /\ pc' = [pc EXCEPT ![i] = "reading"]
              /\ UNCHANGED envelopes
    [] t = "fetch-url" ->
         /\ steps' = [steps EXCEPT ![i] = <<BodyReader(args[i]["responseType"])>>]
         /\ pc' = [pc EXCEPT ![i] = "reading"]
         /\ UNCHANGED envelopes

\* a bug: the response is kept in a variable of the module, which the
\* handlers of all invocations share
RespondShared(i, status, hdrs, loc, delay) ==
  /\ pc[i] = "fetching"
  /\ ~RequestMalformed(i)
  /\ loc # "" => status \in RedirectStatuses /\ RedirectMode(i) = "manual"
  /\ waited' = [waited EXCEPT ![i] = Append(@, delay)]
  /\ trail' = [trail EXCEPT ![i] =
                 Append(@, [url |-> curUrl[i], status |-> status,
                            location |-> loc])]
  /\ LET r == [status |-> status, statusText |-> ReasonPhrase(status),
               headers |-> hdrs, url |-> Href(curUrl[i])]
     IN  /\ resp' = [j \in Ids |-> IF j = i \/ pc[j] = "reading" THEN r ELSE resp[j]]
         /\ AfterFetch(i, tool[i], r)
  /\ UNCHANGED <<tool, bag, args, calls, curUrl, bodyIn, thrown, overlapped>>

\* fetch resolves: the server's answer is the response (a redirect without a
\* Location, or any redirect in manual mode, is returned as it is); loc is
\* the Location of a redirect answer, "" when it has none, and delay the
\* time the headers took; fetch rejects when it gave up the wait before
Respond(i, status, hdrs, loc, delay) ==
  /\ pc[i] = "fetching"
  /\ ~RequestMalformed(i)
  /\ loc # "" => status \in RedirectStatuses /\ RedirectMode(i) = "manual"
  /\ waited' = [waited EXCEPT ![i] = Append(@, delay)]
  /\ IF TimedOut(Options(i), "headersTimeout", delay)
     THEN /\ Return(i, ErrorEnvelope(tool[i], <<Lit("fetch failed")>>), <<>>)
          /\ UNCHANGED <<trail, resp>>
     ELSE /\ trail' = [trail EXCEPT ![i] =
                         Append(@, [url |-> curUrl[i], status |-> status,
                                    location |-> loc])]
          /\ LET r == [status |-> status, statusText |-> ReasonPhrase(status),
                       headers |-> hdrs, url |-> Href(curUrl[i])]
             IN  /\ resp' = [resp EXCEPT ![i] = r]
                 /\ AfterFetch(i, tool[i], r)
  /\ UNCHANGED <<tool, bag, args, calls, curUrl, bodyIn, thrown, overlapped>>

\* the handler of tool t resumes with the body of its body read
AfterBody(t, a, r, body) ==
  IF t = "fetch-url" THEN FetchUrlTransform(a, r, body)
  ELSE ExtractTransform(a, r, TextOf(body))

\* the handler of tool t resumes with the rejection of its body read
AfterBodyFailure(t, a) ==
  IF t = "fetch-url" THEN FetchUrlBodyFailure(a, <<Lit("terminated")>>)
  ELSE Throws(<<Lit("terminated")>>, <<"text">>)

\* the body read resolves with body, which took as long to arrive as the
\* headers did, or rejects when the capability gave up the wait before
BodyOk(i, body) ==
  /\ pc[i] = "reading"
  /\ resp[i].status \in NullBodyStatuses => body = EmptyBody
  /\ waited' = [waited EXCEPT ![i] = Append(@, Head(@))]
  /\ IF TimedOut(Options(i), "bodyTimeout", Head(waited[i]))
     THEN /\ envelopes' = [envelopes EXCEPT ![i] =
                             Append(@, EnvelopeOf(tool[i],
                                                  AfterBodyFailure(tool[i], args[i])))]
          /\ UNCHANGED <<bodyIn, steps>>
     ELSE /\ bodyIn' = [bodyIn EXCEPT ![i] = <<body>>]
          /\ LET outcome == AfterBody(tool[i], args[i], resp[i], body)
             IN  /\ envelopes' = [envelopes EXCEPT ![i] =
                                    Append(@, EnvelopeOf(tool[i], outcome))]
                 /\ steps' = [steps EXCEPT ![i] = outcome.steps]
  /\ pc' = [pc EXCEPT ![i] = "done"]
  /\ UNCHANGED <<tool, bag, args, calls, curUrl, trail, resp, thrown,
                 overlapped>>

\* the body read rejects: the connection broke while the body was read
BodyFail(i) ==
  /\ pc[i] = "reading"
  /\ envelopes' = [envelopes EXCEPT ![i] =
                     Append(@, EnvelopeOf(tool[i],
                                          AfterBodyFailure(tool[i], args[i])))]
  /\ pc' = [pc EXCEPT ![i] = "done"]
  /\ UNCHANGED <<tool, bag, args, calls, curUrl, trail, resp, bodyIn, steps,
                 waited, thrown, overlapped>>

\* the caller has its answer: the slot takes the next invocation
Finish(i) ==
  /\ pc[i] = "done"
  /\ pc' = [pc EXCEPT ![i] = "idle"]
  /\ tool' = [tool EXCEPT ![i] = ""]
  /\ bag' = [bag EXCEPT ![i] = <<>>]
  /\ args' = [args EXCEPT ![i] = <<>>]
  /\ calls' = [calls EXCEPT ![i] = <<>>]
  /\ curUrl' = [curUrl EXCEPT ![i] = ""]
  /\ trail' = [trail EXCEPT ![i] = <<>>]
  /\ resp' = [resp EXCEPT ![i] = NoResponse]
  /\ bodyIn' = [bodyIn EXCEPT ![i] = <<>>]
  /\ steps' = [steps EXCEPT ![i] = <<>>]
  /\ envelopes' = [envelopes EXCEPT ![i] = <<>>]
  /\ waited' = [waited EXCEPT ![i] = <<>>]
  /\ thrown' = [thrown EXCEPT ![i] = <<>>]
  /\ overlapped' = [overlapped EXCEPT ![i] = {}]

\* the delays that tell invocations apart: those on either side of the
\* timeout the caller supplied
DelaysFor(a) == IF TruthyNum(a, "timeout") THEN Delays ELSE {1}

\* a caller sends a tools/call request to an idle slot
Invoke(i) ==
  /\ pc[i] = "idle"
  /\ \E t \in Tools : \E b \in ArgBags(t) : CallTool(i, t, b)

Next ==
  \E i \in SeqIds :
    \/ Invoke(i)
    \/ \E status \in Statuses \cap RedirectStatuses : \E loc \in Locations :
         Redirect(i, status, loc)
    \/ \E status \in Statuses : \E hdrs \in HeaderLists :
         \E loc \in Locations \cup {""} : \E delay \in DelaysFor(args[i]) :
           Respond(i, status, hdrs, loc, delay)
    \/ FetchFail(i)
    \/ \E body \in Bodies : BodyOk(i, body)
    \/ BodyFail(i)
    \/ Finish(i)

Spec == Init /\ [][Next]_vars

(***************************************************************************)
(* Concurrent invocations.  The server handles each tools/call request in  *)
(* its own run of the async handler: a handler suspended at an await lets  *)
(* the handlers of other requests run.  SpecConcurrent interleaves the     *)
(* steps of the invocations in all the slots of Ids, each called with one  *)
(* of a few argument bags and answered with one of a few responses.        *)
(***************************************************************************)
ConcurrentCalls ==
  {[tool |-> "fetch-url", bag |-> [url |-> "http://h/a"]],
   [tool |-> "fetch-url",
    bag |-> [url |-> "http://h/a#f", responseType |-> "html-fragment",
             fragmentSelector |-> "p"]],
   [tool |-> "extract-html-fragment",
    bag |-> [url |-> "http://h/a", selector |-> "h1", anchorId |-> "top"]],
   [tool |-> "check-status", bag |-> [url |-> "http://h/a"]]}
\* the statuses the servers of the small environments answer with
AnswerStatuses == {200, 404}
ConcurrentBodies == {DocAnchored, DocPlain}

NextConcurrent ==
  \E i \in Ids :
    \/ \E c \in ConcurrentCalls : CallTool(i, c.tool, c.bag)
    \/ \E loc \in Locations : Redirect(i, 302, loc)
    \/ \E status \in AnswerStatuses : \E hdrs \in HeaderLists :
         Respond(i, status, hdrs, "", 1)
    \/ FetchFail(i)
    \/ \E body \in ConcurrentBodies : BodyOk(i, body)
    \/ BodyFail(i)
    \/ Finish(i)

SpecConcurrent == Init /\ [][NextConcurrent]_vars

(***************************************************************************)
(* Invocations one after the other.  SpecSequential calls a tool only when *)
(* no other invocation is running; an invocation that has returned stays   *)
(* in its slot, with its result, while later ones run in the other slots.  *)
(***************************************************************************)
SequentialCalls ==
  {[tool |-> "check-status", bag |-> [url |-> "http://h/a"]],
   [tool |-> "fetch-url", bag |-> [url |-> "http://h/a", responseType |-> "json"]],
   [tool |-> "extract-html-fragment",
    bag |-> [url |-> "http://h/a", selector |-> "nope"]]}
SequentialBodies == {JsonBody, DocPlain}

\* no invocation but i is running
OthersAtRest(i) == \A j \in Ids \ {i} : pc[j] \in {"idle", "done"}

NextSequential ==
  \E i \in Ids :
    \/ OthersAtRest(i) /\ \E c \in SequentialCalls : CallTool(i, c.tool, c.bag)
    \/ \E loc \in Locations : Redirect(i, 302, loc)
    \/ \E status \in AnswerStatuses : \E hdrs \in HeaderLists :
         Respond(i, status, hdrs, "", 1)
    \/ FetchFail(i)
    \/ \E body \in SequentialBodies : BodyOk(i, body)
    \/ BodyFail(i)
    \/ Finish(i)

SpecSequential == Init /\ [][NextSequential]_vars

(***************************************************************************)
(* Properties.                                                             *)
(***************************************************************************)
Finished(i) == pc[i] = "done"
\* the handler of invocation i ran (its arguments passed validation)
Handled(i) == calls[i] # <<>>
Envelope(i) == envelopes[i][1]
ReturnedError(i) == Len(envelopes[i]) = 1 /\ Envelope(i).isError
ReturnedSuccess(i) == Len(envelopes[i]) = 1 /\ ~Envelope(i).isError
\* the result object of a success envelope, the message of an error envelope
Payload(i) == Envelope(i).content[1].text
In2xx(status) == status \in 200..299

\* the failures of a handled invocation, read off what happened to it
TransportFailed(i) == resp[i] = NoResponse
FatalStatus(i) ==
  tool[i] = "extract-html-fragment" /\ ~TransportFailed(i) /\ ~In2xx(resp[i].status)
BodyReadFailed(i) ==
  /\ ~TransportFailed(i) /\ ~FatalStatus(i)
  /\ tool[i] # "check-status" /\ bodyIn[i] = <<>>
ParseFailed(i) ==
  /\ tool[i] = "fetch-url" /\ bodyIn[i] # <<>>
  /\ args[i]["responseType"] = "json" /\ ~JsonParses(bodyIn[i][1])
\* the document the handler of invocation i parsed
Document(i) == Jsdom(TextOf(bodyIn[i][1]))
NoMatch(i) ==
  /\ bodyIn[i] # <<>>
  /\ \/ /\ tool[i] = "fetch-url" /\ args[i]["responseType"] = "html-fragment"
        /\ TruthyStr(args[i], "fragmentSelector")
        /\ QuerySelectorAll(Document(i), args[i]["fragmentSelector"]) = <<>>
     \/ /\ tool[i] = "extract-html-fragment"
        /\ QuerySelectorAll(Document(i), args[i]["selector"]) = <<>>
AnchorMissing(i) ==
  /\ tool[i] = "extract-html-fragment" /\ bodyIn[i] # <<>>
  /\ TruthyStr(args[i], "anchorId")
  /\ GetElementById(Document(i), args[i]["anchorId"]) = {}
FailedAfterValidation(i) ==
  \/ TransportFailed(i) \/ FatalStatus(i) \/ BodyReadFailed(i)
  \/ ParseFailed(i) \/ NoMatch(i) \/ AnchorMissing(i)

\* C1: an invocation that fails after validation (transport fault, fatal
\* status, unreadable body, parse failure, no match, missing anchor) ends
\* with exactly one envelope, an error envelope with one text message; no
\* exception leaves the handler and fetch is not called again.
C1_FailureYieldsOneErrorEnvelope ==
  \A i \in Ids :
    Finished(i) /\ Handled(i) /\ FailedAfterValidation(i) =>
      /\ ReturnedError(i)
      /\ Len(Envelope(i).content) = 1 /\ Envelope(i).content[1].type = "text"
      /\ thrown[i] = <<>>
      /\ Len(calls[i]) = 1

C1_Witness ==
  \E i \in Ids :
    /\ Finished(i) /\ Handled(i) /\ tool[i] = "extract-html-fragment"
    /\ resp[i].status = 200 /\ bodyIn[i] = <<DocPlain>>
    /\ args[i]["selector"] = "nope" /\ NoMatch(i)
    /\ ReturnedError(i)

\* what the validator is said to reject
UrlInvalid(b) == ~Has(b, "url") \/ b["url"] \notin AbsoluteUrls
MethodInvalid(t, b) ==
  /\ Has(b, "method")
  /\ \/ t = "fetch-url" /\ b["method"] \notin FetchMethods
     \/ t = "extract-html-fragment" /\ b["method"] \notin ExtractMethods
TimeoutInvalid(b) == Has(b, "timeout") /\ b["timeout"] <= 0
SelectorMissing(t, b) == t = "extract-html-fragment" /\ ~Has(b, "selector")

\* C2: an argument bag that fails validation (url missing or not absolute,
\* method outside the tool's set, timeout not positive, selector missing)
\* comes back as an error envelope, and no exception leaves the tools/call
\* handler.
C2_InvalidInputGetsErrorEnvelope ==
  \A i \in Ids :
    /\ Finished(i)
    /\ \/ UrlInvalid(bag[i]) \/ MethodInvalid(tool[i], bag[i])
       \/ TimeoutInvalid(bag[i]) \/ SelectorMissing(tool[i], bag[i])
    => thrown[i] = <<>> /\ ReturnedError(i)

\* C3: the HTTP capability is never called for an invocation whose url is
\* missing or not absolute, whose method is outside the tool's enumerated
\* set, or whose timeout is zero or negative.
C3_NoExchangeForInvalidInput ==
  \A i \in Ids :
    /\ pc[i] # "idle"
    /\ \/ UrlInvalid(bag[i]) \/ MethodInvalid(tool[i], bag[i])
       \/ TimeoutInvalid(bag[i])
    => calls[i] = <<>> /\ trail[i] = <<>> /\ resp[i] = NoResponse

C3_Witness ==
  \E i \in Ids :
    /\ Finished(i) /\ tool[i] = "fetch-url"
    /\ ~UrlInvalid(bag[i]) /\ Has(bag[i], "timeout") /\ bag[i]["timeout"] = 0
    /\ calls[i] = <<>> /\ thrown[i] # <<>>

\* C4: extract-html-fragment with a missing or empty selector is rejected
\* by validation, before any HTTP exchange.
C4_EmptySelectorRejected ==
  \A i \in Ids :
    /\ pc[i] # "idle" /\ tool[i] = "extract-html-fragment"
    /\ ~Has(bag[i], "selector") \/ bag[i]["selector"] = ""
    => calls[i] = <<>> /\ thrown[i] # <<>>

\* C5: a validated invocation calls the HTTP capability exactly once,
\* whatever becomes of the exchange, and reports one result.
C5_OneExchangePerInvocation ==
  \A i \in Ids :
    pc[i] # "idle" /\ ArgsValid(tool[i], bag[i]) =>
      /\ Len(calls[i]) = 1
      /\ Finished(i) => Len(envelopes[i]) = 1
      /\ ~Finished(i) => envelopes[i] = <<>>

C5_Witness ==
  \E i \in Ids :
    /\ Finished(i) /\ ArgsValid(tool[i], bag[i]) /\ TransportFailed(i)
    /\ Len(calls[i]) = 1 /\ ReturnedError(i)

\* C6: fetch-url and check-status never fail because of the status code.
\* check-status succeeds on every completed exchange; fetch-url reads the
\* body on every status and ends as it would on a 200 with the same body
\* and arguments; a success result reports the status received.
C6_StatusNeverFatal ==
  \A i \in Ids :
    /\ Finished(i) /\ Handled(i) /\ ~TransportFailed(i)
    /\ tool[i] \in {"fetch-url", "check-status"}
    => IF tool[i] = "check-status"
       THEN ReturnedSuccess(i) /\ Payload(i)["status"] = resp[i].status
       ELSE /\ steps[i] # <<>>
            /\ bodyIn[i] = <<>> => ReturnedError(i)
            /\ bodyIn[i] # <<>> =>
                 LET twin == FetchUrlTransform(
                               args[i],
                               [resp[i] EXCEPT !.status = 200, !.statusText = "OK"],
                               bodyIn[i][1])
                 IN  /\ Len(envelopes[i]) = 1
                     /\ ReturnedSuccess(i) <=> twin.ok
                     /\ ReturnedSuccess(i) => Payload(i)["status"] = resp[i].status

C6_Witness ==
  \E i \in Ids :
    /\ Finished(i) /\ tool[i] = "fetch-url" /\ resp[i].status = 404
    /\ bodyIn[i] = <<DocPlain>>
    /\ ReturnedSuccess(i) /\ Payload(i)["status"] = 404

\* C7: extract-html-fragment ends every exchange whose status is outside
\* 200-299 with an error envelope that embeds the status code, without
\* reading or parsing the body and without evaluating anchor or selector.
C7_ExtractRejectsNon2xx ==
  \A i \in Ids :
    /\ tool[i] = "extract-html-fragment" /\ Handled(i)
    /\ ~TransportFailed(i) /\ ~In2xx(resp[i].status)
    => /\ Finished(i) /\ ReturnedError(i)
       /\ \E j \in DOMAIN Payload(i) : Payload(i)[j].num = resp[i].status
       /\ steps[i] = <<>> /\ bodyIn[i] = <<>>

C7_Witness ==
  \E i \in Ids :
    /\ Finished(i) /\ tool[i] = "extract-html-fragment"
    /\ Has(bag[i], "followRedirects") /\ ~bag[i]["followRedirects"]
    /\ resp[i].status = 302 /\ trail[i][1].location # ""
    /\ ReturnedError(i) /\ steps[i] = <<>>

\* C8 as stated: in a check-status success result isAvailable is true if
\* and only if the reported status is in 200..399.
C8_AvailableIffBelow400 ==
  \A i \in Ids :
    Finished(i) /\ tool[i] = "check-status" /\ ReturnedSuccess(i) =>
      (Payload(i)["isAvailable"] <=> Payload(i)["status"] \in 200..399)

\* C8 as amended: in a check-status success result isAvailable is true if
\* and only if the reported status is in 200..299.
C8_AvailableIff2xx ==
  \A i \in Ids :
    Finished(i) /\ tool[i] = "check-status" /\ ReturnedSuccess(i) =>
      (Payload(i)["isAvailable"] <=> Payload(i)["status"] \in 200..299)

C8_Witness ==
  \E i \in Ids :
    /\ Finished(i) /\ tool[i] = "check-status" /\ ReturnedSuccess(i)
    /\ Payload(i)["status"] = 304 /\ ~Payload(i)["isAvailable"]

\* C9: check-status sends every request with method HEAD and nothing of a
\* supplied method, headers or body; a supplied method is not rejected (the
\* request is sent whenever url and timeout are valid).
C9_CheckStatusSendsHead ==
  \A i \in Ids :
    pc[i] # "idle" /\ tool[i] = "check-status" =>
      /\ \A j \in DOMAIN calls[i] :
           /\ calls[i][j].options["method"] = "HEAD"
           /\ ~Has(calls[i][j].options, "body")
           /\ ~Has(calls[i][j].options, "headers")
      /\ ~UrlInvalid(bag[i]) /\ ~TimeoutInvalid(bag[i]) =>
           Len(calls[i]) = 1 /\ thrown[i] = <<>>

C9_Witness ==
  \E i \in Ids :
    /\ Finished(i) /\ tool[i] = "check-status"
    /\ Has(bag[i], "method") /\ bag[i]["method"] = "TRACE"
    /\ Has(bag[i], "body") /\ bag[i]["body"] = "x"
    /\ Len(calls[i]) = 1 /\ calls[i][1].options["method"] = "HEAD"
    /\ ReturnedSuccess(i)

\* followRedirects true or omitted
Follows(b) == Has(b, "followRedirects") => b["followRedirects"]
LastAnswer(i) == trail[i][Len(trail[i])]

\* C10 as stated: with followRedirects true or omitted a fetch-url result
\* reports the status and URL of the last resource reached, a URL different
\* from the requested one when a redirect was followed; with followRedirects
\* false the first answer is the result and its url equals the request URL.
C10_RedirectedUrlDiffersElseEqualsRequest ==
  \A i \in Ids :
    Finished(i) /\ tool[i] = "fetch-url" /\ ReturnedSuccess(i) =>
      /\ Payload(i)["status"] = LastAnswer(i).status
      /\ Payload(i)["url"] = Href(LastAnswer(i).url)
      /\ IF Follows(bag[i])
         THEN Len(trail[i]) > 1 => Payload(i)["url"] # bag[i]["url"]
         ELSE Len(trail[i]) = 1 /\ Payload(i)["url"] = bag[i]["url"]

\* C10 as amended: with followRedirects true or omitted every redirect
\* answer that names a Location is followed, and the result reports the
\* status and the URL of the last resource reached; with followRedirects
\* false the first answer, a redirect included, is the result, and its url
\* is the request URL as the capability serialises it (without fragment).
C10_RedirectPolicy ==
  \A i \in Ids :
    Finished(i) /\ tool[i] = "fetch-url" /\ ReturnedSuccess(i) =>
      /\ Payload(i)["status"] = LastAnswer(i).status
      /\ Payload(i)["url"] = Href(LastAnswer(i).url)
      /\ trail[i][1].url = bag[i]["url"]
      /\ \A j \in 1..(Len(trail[i]) - 1) :
           /\ trail[i][j].status \in RedirectStatuses
           /\ trail[i][j].location # ""
           /\ trail[i][j + 1].url = trail[i][j].location
      /\ IF Follows(bag[i])
         THEN ~(LastAnswer(i).status \in RedirectStatuses
                  /\ LastAnswer(i).location # "")
         ELSE Len(trail[i]) = 1 /\ Payload(i)["url"] = Href(bag[i]["url"])

C10_Witness ==
  \E i \in Ids :
    /\ Finished(i) /\ tool[i] = "fetch-url" /\ ReturnedSuccess(i)
    /\ Follows(bag[i]) /\ bag[i]["url"] = "http://h/a"
    /\ Len(trail[i]) = 2 /\ trail[i][1].status = 302
    /\ Payload(i)["status"] = 200 /\ Payload(i)["url"] = "http://h/b"

\* the waits of invocation i that lasted longer than the timeout it supplied
Overdue(i) ==
  {j \in DOMAIN waited[i] : waited[i][j] > args[i]["timeout"]}
\* an error message that reports an HTTP status
IsHttpError(message) == \E j \in DOMAIN message : message[j].num # 0

\* C11: in every tool a supplied timeout bounds the wait for the response
\* headers and the wait for the whole body: an invocation one of whose waits
\* lasted longer than its timeout ends in a transport-failure error envelope,
\* never in a success result and never in an HTTP-status error.
C11_TimeoutBoundsHeadersAndBody ==
  \A i \in Ids :
    Finished(i) /\ Handled(i) /\ Has(args[i], "timeout") /\ Overdue(i) # {} =>
      ReturnedError(i) /\ ~IsHttpError(Payload(i))

\* fetch-url with responseType json, its body read
JsonRequested(i) ==
  /\ Finished(i) /\ Handled(i) /\ tool[i] = "fetch-url"
  /\ args[i]["responseType"] = "json" /\ bodyIn[i] # <<>>
\* the bodies of the model that are not one JSON value
InvalidJsonBodies ==
  {EmptyBody, JsonTruncated, DocAnchored, DocPlain, BinaryBody}
ParserMessages == {"Unexpected end of JSON input", "Unexpected token"}

\* C12: fetch-url with responseType json and a body that is not valid JSON
\* (the empty body included, on every status) ends in an error envelope
\* that embeds the parser's message, never in a success result.
C12_InvalidJsonIsAnError ==
  \A i \in Ids :
    JsonRequested(i) /\ bodyIn[i][1] \in InvalidJsonBodies =>
      /\ ReturnedError(i)
      /\ \E j \in DOMAIN Payload(i) :
           /\ Payload(i)[j].text \in ParserMessages
           /\ bodyIn[i][1] = EmptyBody =>
                Payload(i)[j].text = "Unexpected end of JSON input"

C12_Witness ==
  \E i \in Ids :
    /\ JsonRequested(i) /\ resp[i].status = 404 /\ bodyIn[i][1] = EmptyBody
    /\ ReturnedError(i)
    /\ Payload(i)[Len(Payload(i))].text = "Unexpected end of JSON input"

\* the content of a success result parses to the value the body parses to
ContentRoundTrips(i) ==
  /\ ReturnedSuccess(i)
  /\ Payload(i)["content"].type = "string"
  /\ JsonParse(Payload(i)["content"].chars).ok
  /\ JsonParse(Payload(i)["content"].chars).value = JsonParse(bodyIn[i][1]).value

\* C13 as stated: for fetch-url with responseType json and any body that is
\* valid JSON, parsing the returned content yields a value equal to the
\* value the body parses to.
C13_JsonRoundTrip ==
  \A i \in Ids :
    JsonRequested(i) /\ bodyIn[i][1] \in {JsonBody, JsonDup, JsonEdge} =>
      ContentRoundTrips(i)

\* a number token that JSON.stringify does not write back: one beyond the
\* range of doubles, or negative zero
WritesDifferently(body) ==
  \E j \in DOMAIN body : body[j].inner \in {"-0", "1e999"}

\* C13 as amended: the same, for a valid JSON body none of whose numbers is
\* beyond the range of doubles or negative zero.
C13_JsonRoundTripOfFiniteNumbers ==
  \A i \in Ids :
    /\ JsonRequested(i) /\ bodyIn[i][1] \in {JsonBody, JsonDup, JsonEdge}
    /\ ~WritesDifferently(bodyIn[i][1])
    => ContentRoundTrips(i)

C13_Witness ==
  \E i \in Ids :
    /\ JsonRequested(i) /\ bodyIn[i][1] = JsonDup /\ ReturnedSuccess(i)
    /\ Payload(i)["content"].chars # JsonDup
    /\ JsonParse(Payload(i)["content"].chars).value.keys = <<"\"a\"">>
    /\ ContentRoundTrips(i)

\* the sextet a base64 character stands for
Base64Sextet(char) == (CHOOSE n \in DOMAIN Base64Alphabet : Base64Alphabet[n] = char) - 1

\* base64 decoding: three bytes of four characters, fewer of a padded group
RECURSIVE Base64Decode(_)
Base64Decode(chars) ==
  IF Len(chars) < 4 THEN <<>>
  ELSE LET n1 == Base64Sextet(chars[1])
           n2 == Base64Sextet(chars[2])
           rest == Base64Decode(SubSeq(chars, 5, Len(chars)))
       IN  IF chars[3] = "="
           THEN <<n1 * 4 + n2 \div 16>> \o rest
           ELSE IF chars[4] = "="
           THEN <<n1 * 4 + n2 \div 16,
                  (n2 % 16) * 16 + Base64Sextet(chars[3]) \div 4>> \o rest
           ELSE <<n1 * 4 + n2 \div 16,
                  (n2 % 16) * 16 + Base64Sextet(chars[3]) \div 4,
                  (Base64Sextet(chars[3]) % 4) * 64 + Base64Sextet(chars[4])>>
                \o rest

\* the characters of a string of the result, one to a chunk
CharsOf(string) == [j \in DOMAIN string.chars |-> string.chars[j].inner]

\* fetch-url, its body read
BodyRead(i) ==
  Finished(i) /\ Handled(i) /\ tool[i] = "fetch-url" /\ bodyIn[i] # <<>>

\* C14: fetch-url with responseType binary and a readable body succeeds with
\* encoding "base64" and a content whose base64 decoding is the sequence of
\* the body's bytes; a result of another response type has no encoding.
C14_BinaryContentDecodesToBody ==
  \A i \in Ids :
    BodyRead(i) =>
      IF args[i]["responseType"] = "binary"
      THEN /\ ReturnedSuccess(i)
           /\ Payload(i)["encoding"] = "base64"
           /\ Payload(i)["content"].type = "string"
           /\ Base64Decode(CharsOf(Payload(i)["content"]))
                = ArrayBuffer(bodyIn[i][1])
      ELSE ReturnedSuccess(i) => "encoding" \notin DOMAIN Payload(i)

C14_Witness ==
  \E i \in Ids :
    /\ BodyRead(i) /\ args[i]["responseType"] = "binary"
    /\ bodyIn[i][1] = BinaryBody /\ ReturnedSuccess(i)
    /\ CharsOf(Payload(i)["content"]) = <<"/", "1", "Q", "=">>

\* the outer markup of the elements of type sel in the text of body, in
\* document order: each with its tag name in lower case
MarkupOfType(body, sel) ==
  LET found == SelectSeq(TextOf(body),
                         LAMBDA c : c.tag # "#text" /\ LowerCase(c.tag) = sel)
  IN  [j \in DOMAIN found |-> Elem(sel, found[j].id, found[j].inner)]

\* the chunks of markups, a newline between each two
RECURSIVE NewlineSeparated(_)
NewlineSeparated(markups) ==
  IF Len(markups) <= 1 THEN markups
  ELSE <<Head(markups), Text("\n")>> \o NewlineSeparated(Tail(markups))

\* fetch-url with responseType html-fragment and a fragmentSelector, its
\* body read
FragmentRequested(i) ==
  /\ BodyRead(i) /\ args[i]["responseType"] = "html-fragment"
  /\ TruthyStr(args[i], "fragmentSelector")

\* C15: fetch-url with responseType html-fragment and a fragmentSelector
\* that matches N >= 1 elements succeeds with matchCount = N and a content
\* that is one string: the outer markup of the element when N = 1, the outer
\* markup of the N elements in document order joined by newlines otherwise.
C15_FragmentContentIsOneString ==
  \A i \in Ids :
    FragmentRequested(i) =>
      LET found == MarkupOfType(bodyIn[i][1], args[i]["fragmentSelector"])
      IN  Len(found) >= 1 =>
            /\ ReturnedSuccess(i)
            /\ Payload(i)["matchCount"] = Len(found)
            /\ Payload(i)["content"].type = "string"
            /\ Payload(i)["content"].chars = NewlineSeparated(found)

C15_Witness ==
  \E i \in Ids :
    /\ FragmentRequested(i) /\ bodyIn[i][1] = DocAnchored
    /\ args[i]["fragmentSelector"] = "p" /\ ReturnedSuccess(i)
    /\ Payload(i)["matchCount"] = 2
    /\ Payload(i)["content"]
         = String(<<Elem("p", "", "a"), Text("\n"), Elem("p", "", "b")>>)

\* extract-html-fragment, its body read
Extracted(i) ==
  /\ Finished(i) /\ Handled(i) /\ tool[i] = "extract-html-fragment"
  /\ bodyIn[i] # <<>>

\* C16: in an extract-html-fragment success result matchCount is at least 1
\* and is the number of elements the selector matched; html is one string,
\* the outer markup of the element, when matchCount = 1, and otherwise a
\* sequence of matchCount strings, the outer markup of each matched element
\* in document order.
C16_ExtractHtmlIsStringOrSequence ==
  \A i \in Ids :
    Extracted(i) /\ ReturnedSuccess(i) =>
      LET found == MarkupOfType(bodyIn[i][1], args[i]["selector"])
          html == Payload(i)["html"]
      IN  /\ Payload(i)["matchCount"] >= 1
          /\ Payload(i)["matchCount"] = Len(found)
          /\ IF Payload(i)["matchCount"] = 1
             THEN html = String(<<found[1]>>)
             ELSE /\ html.type = "array"
                  /\ Len(html.items) = Payload(i)["matchCount"]
                  /\ \A j \in DOMAIN html.items : html.items[j] = <<found[j]>>

C16_Witness ==
  \E i \in Ids :
    /\ Extracted(i) /\ ReturnedSuccess(i) /\ bodyIn[i][1] = DocAnchored
    /\ args[i]["selector"] = "p" /\ Payload(i)["matchCount"] = 2
    /\ Payload(i)["html"] = Array(<<(<<Elem("p", "", "a")>>), (<<Elem("p", "", "b")>>)>>)

\* the selector of an extraction that ran: of fetch-url with responseType
\* html-fragment and a fragmentSelector, or of extract-html-fragment
Extracting(i) == FragmentRequested(i) \/ Extracted(i)
SelectorOf(i) ==
  IF tool[i] = "fetch-url" THEN args[i]["fragmentSelector"] ELSE args[i]["selector"]
\* the selector is one the document evaluates, and no element matches it
MatchesNothing(i) ==
  SelectorOf(i) # "" /\ MarkupOfType(bodyIn[i][1], SelectorOf(i)) = <<>>
ReportsNoMatch(i) ==
  \E j \in DOMAIN Payload(i) :
    /\ Payload(i)[j].text = "No elements found matching selector "
    /\ Payload(i)[j].arg = SelectorOf(i)
\* the document lacks the anchor the invocation names
LacksAnchor(i) ==
  /\ tool[i] = "extract-html-fragment"
  /\ Has(bag[i], "anchorId") /\ bag[i]["anchorId"] # ""
  /\ \A j \in DOMAIN bodyIn[i][1] :
       bodyIn[i][1][j].tag = "#text" \/ bodyIn[i][1][j].id # bag[i]["anchorId"]
ReportsAnchor(i) ==
  \E j \in DOMAIN Payload(i) :
    /\ Payload(i)[j].text = "Anchor element with ID  not found"
    /\ Payload(i)[j].arg = bag[i]["anchorId"]

\* C17 as stated: in both extraction paths a selector that matches none of
\* the document's elements ends the invocation in an error envelope whose
\* message holds 'No elements found matching selector' and the selector.
C17_NoMatchAlwaysReported ==
  \A i \in Ids :
    Extracting(i) /\ MatchesNothing(i) => ReturnedError(i) /\ ReportsNoMatch(i)

\* C17 as amended: such a selector ends the invocation in an error
\* envelope, never in a success result; the message holds 'No elements found
\* matching selector' and the selector, unless extract-html-fragment was
\* given an anchorId the document lacks: then it reports the anchor.
C17_NoMatchReportedAfterAnchor ==
  \A i \in Ids :
    Extracting(i) /\ MatchesNothing(i) =>
      /\ ReturnedError(i)
      /\ IF LacksAnchor(i) THEN ReportsAnchor(i) /\ ~ReportsNoMatch(i)
         ELSE ReportsNoMatch(i)

C17_Witness ==
  \E i \in Ids :
    /\ FragmentRequested(i) /\ bodyIn[i][1] = DocAnchored
    /\ args[i]["fragmentSelector"] = "nope" /\ resp[i].status = 404
    /\ ReturnedError(i) /\ ReportsNoMatch(i)

\* C18: extract-html-fragment called with an anchorId on a 2xx response
\* whose document has no element with that id ends in an error envelope
\* whose message holds the anchor id, whatever the selector matches.
C18_MissingAnchorIsAnError ==
  \A i \in Ids :
    Extracted(i) /\ LacksAnchor(i) =>
      /\ In2xx(resp[i].status)
      /\ ReturnedError(i) /\ ReportsAnchor(i)

C18_Witness ==
  \E i \in Ids :
    /\ Extracted(i) /\ LacksAnchor(i) /\ bodyIn[i][1] = DocAnchored
    /\ args[i]["anchorId"] = "zzz" /\ args[i]["selector"] = "h1"
    /\ ReturnedError(i) /\ ReportsAnchor(i)

\* the document has an element with the id the invocation names
HasAnchor(i) ==
  /\ Has(bag[i], "anchorId") /\ bag[i]["anchorId"] # ""
  /\ \E j \in DOMAIN bodyIn[i][1] :
       bodyIn[i][1][j].tag # "#text" /\ bodyIn[i][1][j].id = bag[i]["anchorId"]
\* what an extraction returns that depends on nothing but the response,
\* the document and the selector: the matches, or the error of a selector
\* that matches nothing or is no selector
UngatedEnvelope(i) ==
  LET sel == args[i]["selector"]
      found == MarkupOfType(bodyIn[i][1], sel)
  IN  IF sel = ""
      THEN ErrorEnvelope(tool[i], <<Part(" is not a valid selector", 0, sel)>>)
      ELSE IF found = <<>>
      THEN ErrorEnvelope(tool[i],
                         <<Part("No elements found matching selector ", 0, sel)>>)
      ELSE SuccessEnvelope(
             [status |-> resp[i].status, statusText |-> resp[i].statusText,
              url |-> resp[i].url, selector |-> sel, matchCount |-> Len(found),
              html |-> IF Len(found) = 1 THEN String(<<found[1]>>)
                       ELSE Array([j \in DOMAIN found |-> <<found[j]>>])])

\* C19: the anchor check is only a gate: when the document has an element
\* with the anchorId, extract-html-fragment returns what the same call
\* without anchorId returns (the same matchCount and html, or the same
\* error): both return what the document and the selector alone determine.
C19_AnchorIsOnlyAGate ==
  \A i \in Ids :
    Extracted(i) /\ (HasAnchor(i) \/ ~Has(bag[i], "anchorId")) =>
      Envelope(i) = UngatedEnvelope(i)

C19_Witness ==
  \E i \in Ids :
    /\ Extracted(i) /\ HasAnchor(i) /\ bodyIn[i][1] = DocAnchored
    /\ args[i]["anchorId"] = "top" /\ args[i]["selector"] = "h1"
    /\ ReturnedSuccess(i) /\ Payload(i)["matchCount"] = 1
    /\ Payload(i)["html"] = String(<<Elem("h1", "top", "T")>>)

\* C20: fetch-url with responseType html-fragment and no fragmentSelector
\* succeeds on every document with the text of the response as content; no
\* selector is applied and no matchCount is reported.
C20_NoSelectorGivesFullDocument ==
  \A i \in Ids :
    /\ BodyRead(i) /\ args[i]["responseType"] = "html-fragment"
    /\ ~Has(bag[i], "fragmentSelector")
    => /\ ReturnedSuccess(i)
       /\ Payload(i)["content"] = String(TextOf(bodyIn[i][1]))
       /\ "matchCount" \notin DOMAIN Payload(i)
       /\ \A j \in DOMAIN steps[i] : steps[i][j] # "querySelectorAll"

C20_Witness ==
  \E i \in Ids :
    /\ BodyRead(i) /\ args[i]["responseType"] = "html-fragment"
    /\ ~Has(bag[i], "fragmentSelector") /\ bodyIn[i][1] = DocPlain
    /\ ReturnedSuccess(i)
    /\ Payload(i)["content"] = String(<<Elem("H1", "", "T")>>)

\* the values the headers field of a result holds under name
ValuesReported(headers, name) ==
  IF name \in DOMAIN headers
  THEN {headers[name][j] : j \in DOMAIN headers[name]}
  ELSE {}

\* C21: the headers field of every fetch-url and check-status success result
\* holds every response header as received: each value of each header line,
\* those of a name that occurs more than once included, is found under its
\* name; none is dropped or overwritten, whatever the response type.
C21_EveryHeaderValueReported ==
  \A i \in Ids :
    /\ Finished(i) /\ tool[i] \in {"fetch-url", "check-status"}
    /\ ReturnedSuccess(i)
    => \A j \in DOMAIN resp[i].headers :
         resp[i].headers[j].value
           \in ValuesReported(Payload(i)["headers"], resp[i].headers[j].name)

\* the tag an error of the tool is said to begin with
TagOf(t) ==
  CASE t = "fetch-url" -> "Error fetching URL: "
    [] t = "extract-html-fragment" -> "Error extracting HTML fragment: "
    [] t = "check-status" -> "Error checking URL status: "

\* C22: the message of every error envelope a tool's handler returns begins
\* with the tag of that tool, whatever failed: 'Error fetching URL: ' for
\* fetch-url, 'Error extracting HTML fragment: ' for extract-html-fragment,
\* 'Error checking URL status: ' for check-status; it is one literal part,
\* the rest of the message follows it, and it is the tag of no other tool.
C22_ErrorBeginsWithOwnTag ==
  \A i \in Ids :
    Finished(i) /\ Handled(i) /\ ReturnedError(i) =>
      /\ Len(Payload(i)) >= 2
      /\ Payload(i)[1] = Lit(TagOf(tool[i]))
      /\ \A t \in Tools \ {tool[i]} : Payload(i)[1].text # TagOf(t)

C22_Witness ==
  \E i \in Ids :
    /\ Finished(i) /\ Handled(i) /\ tool[i] = "check-status"
    /\ TransportFailed(i) /\ ReturnedError(i)
    /\ Payload(i) = <<Lit("Error checking URL status: "), Lit("fetch failed")>>

\* the messages fetch rejects with
TransportMessages ==
  {"fetch failed", "redirect count exceeded",
   "Request with GET/HEAD method cannot have body"}

\* the response invocation i holds is the last answer of its own exchange
OwnResponse(i) ==
  /\ trail[i] # <<>>
  /\ resp[i].status = LastAnswer(i).status
  /\ resp[i].statusText = ReasonPhrase(LastAnswer(i).status)
  /\ resp[i].url = Href(LastAnswer(i).url)
  /\ resp[i].headers \in HeaderLists

\* the envelope of invocation i is what its tool returns for the arguments
\* a, the response of i and the body of its body read
ResultFor(i, a) ==
  CASE TransportFailed(i) ->
         \E m \in TransportMessages :
           Envelope(i) = ErrorEnvelope(tool[i], <<Lit(m)>>)
    [] ~TransportFailed(i) /\ tool[i] = "check-status" ->
         Envelope(i) = SuccessEnvelope(CheckStatusResult(resp[i]))
    [] FatalStatus(i) ->
         Envelope(i) = ErrorEnvelope(tool[i], HttpErrorMessage(resp[i]))
    [] BodyReadFailed(i) ->
         Envelope(i) = EnvelopeOf(tool[i], AfterBodyFailure(tool[i], a))
    [] OTHER ->
         Envelope(i) = EnvelopeOf(tool[i], AfterBody(tool[i], a, resp[i],
                                                     bodyIn[i][1]))

\* the envelope of invocation i is what its tool returns for its own
\* arguments, its own response and the body of its own body read
OwnResult(i) == ResultFor(i, args[i])

\* C23: concurrent invocations do not interfere.  In every interleaving of
\* the steps of several invocations, each suspended at its HTTP exchange or
\* its body read while others run, an invocation works on the arguments it
\* was called with and on the response of its own exchange, and its one
\* envelope is the result of its tool for these and for the body it read:
\* nothing of another invocation is in it.
C23_NoCrossTalk ==
  \A i \in Ids :
    Handled(i) =>
      /\ args[i] = SchemaParse(tool[i], bag[i])
      /\ calls[i] = <<[url |-> bag[i]["url"],
                       options |-> RequestOptions(tool[i], args[i])]>>
      /\ ~TransportFailed(i) => OwnResponse(i)
      /\ Finished(i) => Len(envelopes[i]) = 1 /\ OwnResult(i)

C23_Witness ==
  /\ overlapped[2] = {1} /\ Finished(1) /\ Finished(2)
  /\ tool[1] = "extract-html-fragment" /\ tool[2] = "fetch-url"
  /\ bodyIn[1] = <<DocAnchored>> /\ bodyIn[2] = <<DocPlain>>
  /\ resp[1].status = 200 /\ resp[2].status = 404
  /\ resp[1].url = "http://h/a" /\ resp[2].url = "http://h/b"
  /\ ReturnedSuccess(1) /\ Payload(1)["url"] = "http://h/a"
  /\ Payload(1)["html"] = String(<<Elem("h1", "top", "T")>>)
  /\ ReturnedSuccess(2) /\ Payload(2)["status"] = 404
  /\ Payload(2)["url"] = "http://h/b"
  /\ Payload(2)["content"] = String(<<Elem("H1", "", "T")>>)

\* invocations i and j were the same call and met the same answers: the
\* same tool and arguments, the same responses of the servers, the same body
SameCall(i, j) == tool[i] = tool[j] /\ bag[i] = bag[j]
SameAnswers(i, j) ==
  /\ trail[i] = trail[j] /\ resp[i] = resp[j] /\ bodyIn[i] = bodyIn[j]
  /\ ~TransportFailed(i)

\* C24: invocations are history-independent.  Whatever invocations went
\* before, successful or failed, a result reports the answer of the server
\* to its own exchange, and two invocations that were the same call and met
\* the same answers ended with the same envelope; in particular the same
\* check-status call against a resource that answers with the same status
\* reports the same status and isAvailable both times, and after a failed
\* invocation the same call fails or succeeds as its own exchange goes.
C24_HistoryIndependent ==
  \A i \in Ids :
    Finished(i) /\ Handled(i) =>
      /\ TransportFailed(i) => ReturnedError(i)
      /\ ReturnedSuccess(i) =>
           /\ trail[i] # <<>>
           /\ Payload(i)["status"] = LastAnswer(i).status
           /\ Payload(i)["url"] = Href(LastAnswer(i).url)
      /\ \A j \in Ids \ {i} :
           Finished(j) /\ Handled(j) /\ SameCall(i, j) =>
             /\ SameAnswers(i, j) => Envelope(i) = Envelope(j)
             /\ /\ tool[i] = "check-status"
                /\ ReturnedSuccess(i) /\ ReturnedSuccess(j)
                /\ LastAnswer(i).status = LastAnswer(j).status
                => /\ Payload(i)["status"] = Payload(j)["status"]
                   /\ Payload(i)["isAvailable"] = Payload(j)["isAvailable"]

C24_Witness ==
  /\ Finished(1) /\ Finished(2) /\ SameCall(1, 2) /\ tool[1] = "check-status"
  /\ ReturnedSuccess(1) /\ ReturnedSuccess(2)
  /\ trail[1] = trail[2] /\ Envelope(1) = Envelope(2)
  /\ Payload(1)["status"] = 404 /\ Payload(2)["status"] = 404
  /\ ~Payload(1)["isAvailable"] /\ ~Payload(2)["isAvailable"]

\* the failure an error message of extract-html-fragment reports
ReportsTransport(i) ==
  \E j \in DOMAIN Payload(i) : Payload(i)[j].text \in TransportMessages
ReportsHttpStatus(i) ==
  \E j \in DOMAIN Payload(i) :
    /\ Payload(i)[j].text = "Failed to fetch URL: HTTP "
    /\ Payload(i)[j].num = resp[i].status
\* the failures the message of invocation i reports, of the four
FailuresReported(i) ==
  {f \in {"transport", "status", "anchor", "selector"} :
     \/ f = "transport" /\ ReportsTransport(i)
     \/ f = "status" /\ ReportsHttpStatus(i)
     \/ f = "anchor" /\ Has(bag[i], "anchorId") /\ ReportsAnchor(i)
     \/ f = "selector" /\ ReportsNoMatch(i)}

\* C25: extract-html-fragment evaluates its failure conditions in the order
\* transport failure, status outside 200-299, anchor presence, selector
\* match, and reports the first that fails and no other: a response outside
\* 200-299 is reported as the HTTP error, its body not read, whatever that
\* body holds; a document that lacks the anchor is reported as the missing
\* anchor also when the selector matches nothing; a selector that matches
\* nothing is reported only when the anchor, if one was given, is there.
C25_FirstFailureReported ==
  \A i \in Ids :
    Finished(i) /\ Handled(i) /\ tool[i] = "extract-html-fragment" =>
      IF TransportFailed(i)
      THEN ReturnedError(i) /\ FailuresReported(i) = {"transport"}
      ELSE IF ~In2xx(resp[i].status)
      THEN /\ ReturnedError(i) /\ FailuresReported(i) = {"status"}
           /\ bodyIn[i] = <<>> /\ steps[i] = <<>>
      ELSE IF bodyIn[i] = <<>>
      THEN ReturnedError(i) /\ FailuresReported(i) = {}
      ELSE IF LacksAnchor(i)
      THEN ReturnedError(i) /\ FailuresReported(i) = {"anchor"}
      ELSE IF MatchesNothing(i)
      THEN ReturnedError(i) /\ FailuresReported(i) = {"selector"}
      ELSE ReturnedError(i) => FailuresReported(i) = {}

C25_Witness ==
  \E i \in Ids :
    /\ Extracted(i) /\ resp[i].status = 200 /\ bodyIn[i][1] = DocPlain
    /\ LacksAnchor(i) /\ MatchesNothing(i)
    /\ args[i]["anchorId"] = "zzz" /\ args[i]["selector"] = "nope"
    /\ ReturnedError(i) /\ FailuresReported(i) = {"anchor"}

\* the optional string arguments of the tool that the bag gives as ""
OptionalStrings(t) ==
  SchemaKeys(t) \cap {"body", "fragmentSelector", "anchorId"}
EmptyStrings(t, b) == {k \in DOMAIN b \cap OptionalStrings(t) : b[k] = ""}
\* the bag without the arguments of K
Omitting(b, K) == [k \in DOMAIN b \ K |-> b[k]]

\* C26: an optional string argument given as "" is treated as if it were
\* omitted.  The call is validated as the call without the argument is, and
\* sends the same request, with no body when body is ""; it ends with the
\* envelope that call ends with on the same response and body: with
\* fragmentSelector "" in html-fragment mode the full document and no
\* matchCount, with anchorId "" no lookup of an anchor.
C26_EmptyStringIsOmitted ==
  \A i \in Ids :
    pc[i] # "idle" /\ EmptyStrings(tool[i], bag[i]) # {} =>
      LET without == Omitting(bag[i], EmptyStrings(tool[i], bag[i]))
          twin == SchemaParse(tool[i], without)
      IN  /\ Handled(i) <=> ArgsValid(tool[i], without)
          /\ Handled(i) =>
               /\ calls[i] = <<[url |-> without["url"],
                                options |-> RequestOptions(tool[i], twin)]>>
               /\ ~Has(Options(i), "body") \/ Options(i)["body"] # ""
               /\ Finished(i) =>
                    /\ Len(envelopes[i]) = 1 /\ ResultFor(i, twin)
                    /\ \A j \in DOMAIN steps[i] :
                         /\ "fragmentSelector" \in EmptyStrings(tool[i], bag[i])
                              => steps[i][j] # "querySelectorAll"
                         /\ "anchorId" \in EmptyStrings(tool[i], bag[i])
                              => steps[i][j] # "getElementById"
                    /\ /\ "fragmentSelector" \in EmptyStrings(tool[i], bag[i])
                       /\ args[i]["responseType"] = "html-fragment"
                       /\ bodyIn[i] # <<>>
                       => /\ ReturnedSuccess(i)
                          /\ Payload(i)["content"] = String(TextOf(bodyIn[i][1]))
                          /\ "matchCount" \notin DOMAIN Payload(i)

C26_Witness ==
  \E i \in Ids :
    /\ BodyRead(i) /\ args[i]["responseType"] = "html-fragment"
    /\ Has(bag[i], "fragmentSelector") /\ bag[i]["fragmentSelector"] = ""
    /\ bodyIn[i][1] = DocAnchored /\ ReturnedSuccess(i)
    /\ Payload(i)["content"] = String(DocAnchored)
    /\ "matchCount" \notin DOMAIN Payload(i)

====
